---- MODULE Spec2Model ----
(***************************************************************************)
(* Model of the algobuilder plugins:                                       *)
(*   - the incremental feature cycle (FeatureImplementation.get_data_from_ *)
(*     date / get_data, MovingAverage.execute, DatabaseUtility.bulk_insert_*)
(*     or_update) over the candle and result tables;                       *)
(*   - the batch planner of the MT5 datasource (MT5DataSource.__get_batches*)
(*     ), as the loop it is;                                               *)
(*   - MT5DataSource.get_prices with __get_rates / __get_ticks: the lookup *)
(*     of the period, one upstream request per batch, the merge, the       *)
(*     resampling of ticks into candles;                                   *)
(*   - the caching decorator _Cache (django_cache): the cache key and the  *)
(*     lookup in the Django cache.                                         *)
(* Time is an integer number of time units.  In the feature part the unit  *)
(* is the one pd.to_timedelta gives a bare number; in the batch part it is *)
(* a fraction of a millisecond (see Millisecond).                          *)
(***************************************************************************)
EXTENDS Integers, Sequences, FiniteSets, TLC

\* ------------------------------------------------------------------ bounds
\* Candle times are TimeStep * 1 .. TimeStep * MaxTime.
MaxTime == 3
TimeStep == 10
\* Batch part: time units per millisecond and per hour (a scaled clock: an
\* hour stays longer than a millisecond), and the largest arguments tried.
Millisecond == 2
Hour == 3
MaxFromDate == 2
MaxToDate == 40
\* At most MaxCandles rows are ever stored in pricedata_candle.
MaxCandles == 3
\* calculation_period given as a number (of observations).
WindowCount == 2
\* calculation_period given as an offset (a duration, in time units).
WindowOffset == 15
\* get_prices: the requested range is up to MaxSpan batch widths long, and the
\* upstream returns at most MaxRows rows in all during one call.
MaxSpan == 2
MaxRows == 3
\* _Cache: at most MaxCalls calls of the decorated function are followed.
MaxCalls == 3
\* The longest cache key (line 61).
KeyLimit == 200

\* ------------------------------------------------------------- value sets
Symbols == {"A", "B"}
Periods == {"1M", "5M"}
Times == {TimeStep * i : i \in 1..MaxTime}
\* Length of a candle period, in time units.
PeriodLength(candle_period) == IF candle_period = "1M" THEN 1 ELSE 5
\* The market: the bid price at time t.  A candle closes at the price at the
\* end of its period, so candles of different times or periods close apart.
BidPrice(t) == t
CalculationPeriods ==
    {[kind |-> "count", n |-> WindowCount], [kind |-> "offset", n |-> WindowOffset]}
\* The feature execution under study; rows of another execution carry "fe2".
FeatureExecutionId == "fe1"

\* Python's None for an optional datetime; a present value t is <<t>>.
None == <<>>
\* float('nan') of a result; a present mean is the reduced fraction <<num, den>>.
NaN == <<>>

VARIABLES
    candles,             \* table pricedata_candle
    results,             \* table feature_featureexecutionresult, in primary-key order
    required,            \* datasource symbols of the execution (join table rows)
    calculation_period,  \* feature_execution.calculation_period
    unique_constraint,   \* whether the result table is UNIQUE (feature_execution, time)
    last                 \* what the most recent call returned / raised / wrote

featureVars == <<candles, results, required, calculation_period, unique_constraint, last>>

\* MT5DataSource.__get_batches(from_date, to_date, period), one loop pass a step
VARIABLES
    from_date,       \* argument
    to_date,         \* argument
    period,          \* argument, a key of period_batch_days
    batches,         \* the list built so far, of pairs <<batch_from, batch_to>>
    last_batch_to,   \* <<t>> (never None in this code, see line 175)
    pc               \* "idle": not called, "loop": at the while test, "done": returned

batchVars == <<from_date, to_date, period, batches, last_batch_to, pc>>

\* MT5DataSource.get_prices(symbol, from_date, to_date, period); it shares the
\* arguments, the batch list and pc with __get_batches, which it calls.
\* pc: "get_prices": entered, "loop" / "done": in / back from __get_batches
\* (at the for loop of __get_rates / __get_ticks), "fetched": back in
\* get_prices with the merged data, "returned", "raised".
VARIABLES
    requests,        \* the upstream calls made so far, in the order made, each
                     \* with its batch, whether it succeeded and with how many rows
    batch_data,      \* local `data` of __get_rates / __get_ticks: None or <<rows>>
    outcome          \* how the call ended: the frame returned or the exception

priceVars == <<requests, batch_data, outcome>>

\* _Cache.__call__ over the Django cache
VARIABLES
    cache,                 \* the entries of caches[cache_name]: key and JSON text
    cache_backend_exists,  \* FALSE: caches[cache_name] raises InvalidCacheBackendError
    calls,                 \* how many calls have been made
    answer                 \* the most recent call: arguments, key, what it returned

cacheVars == <<cache, cache_backend_exists, calls, answer>>

vars == <<featureVars, batchVars, priceVars, cacheVars>>

\* ---------------------------------------------------------------- helpers
Max(S) == CHOOSE x \in S : \A y \in S : y <= x
Min(S) == CHOOSE x \in S : \A y \in S : x <= y

RECURSIVE Gcd(_, _)
Gcd(a, b) == IF b = 0 THEN a ELSE Gcd(b, a % b)

RECURSIVE SumCloses(_, _, _)
\* sum of bid_close over rows lo..hi of the frame
SumCloses(df, lo, hi) ==
    IF lo > hi THEN 0 ELSE df[lo].bid_close + SumCloses(df, lo + 1, hi)

\* mean of bid_close over rows lo..hi (lo <= hi), as a reduced fraction
Mean(df, lo, hi) ==
    LET s == SumCloses(df, lo, hi)
        n == hi - lo + 1
        g == Gcd(s, n)
    IN  <<s \div g, n \div g>>

\* ------------------------------------------------ get_data_from_date (SQL)
\* The candle rows of one time group: WHERE datasource_symbol_id IN (required)
\* GROUP BY cnd.time.
TimeGroup(t) == {c \in candles : c.time = t /\ c.datasource_symbol \in required}

\* The sub-select "times": groups HAVING count(*) = count of required symbols.
times ==
    {t \in {c.time : c \in {c \in candles : c.datasource_symbol \in required}} :
        Cardinality(TimeGroup(t)) = Cardinality(required)}

\* FeatureExecutionResult.objects.filter(feature_execution=fe)
ResultsOf(fe) == {i \in DOMAIN results : results[i].feature_execution_id = fe}

last_calc_exists(fe) == ResultsOf(fe) # {}

\* .latest("time").time
last_calc_time(fe) == Max({results[i].time : i \in ResultsOf(fe)})

\* (next_calc_time with WHERE times.time >= last_calc_time)
next_calc_time_inclusive(fe) ==
    LET cand == IF last_calc_exists(fe)
                THEN {t \in times : t >= last_calc_time(fe)}
                ELSE times
    IN  IF cand = {} THEN None ELSE <<Min(cand)>>

\* SELECT min(times.time) ... [WHERE times.time > last_calc_time]; NULL -> None
next_calc_time(fe) ==
    LET cand == IF last_calc_exists(fe)
                THEN {t \in times : t > last_calc_time(fe)}
                ELSE times
    IN  IF cand = {} THEN None ELSE <<Min(cand)>>

\* pd.to_timedelta(calculation_period): a bare number n is n time units, an
\* offset is its duration.
to_timedelta(cp) == cp.n

get_data_from_date(fe) ==
    LET next == next_calc_time(fe)
    IN  IF next = None THEN None
        ELSE IF last_calc_exists(fe)
             THEN <<next[1] - to_timedelta(calculation_period)>>
             ELSE next

\* ---------------------------------------------------------------- get_data
\* Candle.objects.filter(datasource_symbol=..., time__gte=from_date)
CandlesFrom(dss, from) == {c \in candles : c.datasource_symbol = dss /\ c.time >= from}

\* sort_values(by='time'): every order of the rows that is ascending in time
\* (rows of equal time, i.e. of different periods, come in either order).
SortedFrames(S) ==
    {f \in [1..Cardinality(S) -> S] :
        /\ \A i, j \in 1..Cardinality(S) : i # j => f[i] # f[j]
        /\ \A i, j \in 1..Cardinality(S) : i < j => f[i].time <= f[j].time}

\* ------------------------------------------------- MovingAverage.execute
\* data['bid_close'].rolling(calculation_period).mean(), row i of the frame.
\* A number n: the last n rows, NaN while fewer than n rows exist.
\* An offset d: the rows up to i whose time lies in (time_i - d, time_i],
\* min_periods = 1.
RollingMean(df, cp, i) ==
    IF cp.kind = "count"
    THEN IF i >= cp.n THEN Mean(df, i - cp.n + 1, i) ELSE NaN
    ELSE LET lo == Min({j \in 1..i : df[j].time > df[i].time - cp.n})
         IN  Mean(df, lo, i)

\* The reshaped frame: one row (time, feature_execution_id, result) per row
\* of the fetched frame.
ResultRows(df, fe, cp) ==
    [i \in 1..Len(df) |->
        [time |-> df[i].time, feature_execution_id |-> fe, result |-> RollingMean(df, cp, i)]]

\* ------------------------------------------ DatabaseUtility (result table)
HasDuplicateKey(table) ==
    \E i, j \in DOMAIN table :
        /\ i < j
        /\ table[i].time = table[j].time
        /\ table[i].feature_execution_id = table[j].feature_execution_id

\* __bulk_insert_batch: INSERT INTO table VALUES ...; the statement fails as a
\* whole when the table is UNIQUE on the key and a key would repeat.
bulk_insert_batch(table, data) ==
    IF unique_constraint /\ HasDuplicateKey(table \o data)
    THEN [table |-> table, error |-> "IntegrityError"]
    ELSE [table |-> table \o data, error |-> "none"]

RECURSIVE UpsertRows(_, _, _)
UpsertRows(table, data, k) ==
    IF k > Len(data) THEN table
    ELSE LET row == data[k]
             hit == {i \in DOMAIN table :
                        /\ table[i].time = row.time
                        /\ table[i].feature_execution_id = row.feature_execution_id}
             next == IF hit = {} THEN Append(table, row)
                     ELSE [i \in DOMAIN table |-> IF i \in hit THEN row ELSE table[i]]
         IN  UpsertRows(next, data, k + 1)

\* __bulk_upsert_batch: INSERT ... ON CONFLICT (unique_fields) DO UPDATE
bulk_upsert_batch(table, data) ==
    [table |-> UpsertRows(table, data, 1), error |-> "none"]

\* bulk_insert_or_update(data, table, unique_fields, batch_size): nothing for
\* an empty frame; a straight insert when unique_fields is None, else upsert.
\* (batch_size=1000 makes one batch of the frames modelled here.)
bulk_insert_or_update(table, data, unique_fields) ==
    IF Len(data) > 0
    THEN IF unique_fields = None
         THEN bulk_insert_batch(table, data)
         ELSE bulk_upsert_batch(table, data)
    ELSE [table |-> table, error |-> "none"]

\* ---------------------------------------------------------------- actions
\* last: op = the call made, from_date = what get_data_from_date returned in it,
\* error = the exception it ended with, data = the frame get_data returned,
\* rows = the frame handed to bulk_insert_or_update, after_work = whether the
\* call came straight after a cycle that found work and ended without error
\* (no candle stored in between).
NoCall ==
    [op |-> "none", from_date |-> None, error |-> "none", data |-> <<>>, rows |-> <<>>,
     after_work |-> FALSE]

\* The most recent call was a cycle that found work and ended without error.
CycleDidWork == last.op = "execute" /\ last.from_date # None /\ last.error = "none"

\* The retrieval pipeline stores one more candle (unique per symbol, period, time).
AddCandle(dss, candle_period, time) ==
    /\ Cardinality(candles) < MaxCandles
    /\ ~ \E c \in candles :
            c.datasource_symbol = dss /\ c.period = candle_period /\ c.time = time
    /\ candles' = candles \cup
            {[datasource_symbol |-> dss, period |-> candle_period, time |-> time,
              bid_close |-> BidPrice(time + PeriodLength(candle_period))]}
    /\ last' = NoCall
    /\ UNCHANGED <<results, required, calculation_period, unique_constraint>>
    /\ UNCHANGED batchVars
    /\ UNCHANGED cacheVars
    /\ UNCHANGED priceVars

\* A call of FeatureImplementation.get_data_from_date(feature_execution).
GetDataFromDate ==
    /\ last' = [NoCall EXCEPT !.op = "get_data_from_date",
                              !.from_date = get_data_from_date(FeatureExecutionId),
                              !.after_work = CycleDidWork]
    /\ UNCHANGED <<candles, results, required, calculation_period, unique_constraint>>
    /\ UNCHANGED batchVars
    /\ UNCHANGED cacheVars
    /\ UNCHANGED priceVars

\* A call of MovingAverage.execute(feature_execution).
Execute ==
    /\ UNCHANGED <<candles, required, calculation_period, unique_constraint>>
    /\ UNCHANGED batchVars
    /\ UNCHANGED cacheVars
    /\ UNCHANGED priceVars
    /\ IF Cardinality(required) # 1
       THEN /\ last' = [NoCall EXCEPT !.op = "execute", !.error = "AssertionError",
                                      !.after_work = CycleDidWork]
            /\ UNCHANGED results
       ELSE LET feds == CHOOSE s \in required : TRUE
                from == get_data_from_date(FeatureExecutionId)
            IN  IF from = None
                THEN /\ last' = [NoCall EXCEPT !.op = "execute", !.after_work = CycleDidWork]
                     /\ UNCHANGED results
                ELSE \E df \in SortedFrames(CandlesFrom(feds, from[1])) :
                        LET rows == ResultRows(df, FeatureExecutionId, calculation_period)
                            out == bulk_insert_or_update(results, rows, None)
                        IN  /\ results' = out.table
                            /\ last' = [op |-> "execute", from_date |-> from,
                                        error |-> out.error, data |-> df, rows |-> rows,
                                        after_work |-> CycleDidWork]

\* ------------------------------------------- MT5DataSource.__get_batches
BatchPeriods ==
    {"1S", "5S", "10S", "15S", "30S", "1M", "5M", "10M", "15M", "30M",
     "1H", "3H", "6H", "12H", "1D", "1W", "1MO"}

\* period_batch_days[period], in hours (1 / 24 of a day is one hour)
period_batch_days(p) ==
    CASE p = "1S" -> 1
      [] p = "5S" -> 5
      [] p = "10S" -> 10
      [] p = "15S" -> 15
      [] p \in {"30S", "1M"} -> 24
      [] p = "5M" -> 5 * 24
      [] p = "10M" -> 10 * 24
      [] p = "15M" -> 15 * 24
      [] p = "30M" -> 30 * 24
      [] p \in {"1H", "3H", "6H", "12H"} -> 60 * 24
      [] p \in {"1D", "1W", "1MO"} -> 120 * 24

\* (a width that runs backwards)
BatchDeltaBackwards(p) == - period_batch_days(p) * Hour

\* timedelta(days=period_batch_days[period])
BatchDelta(p) == period_batch_days(p) * Hour

\* (BatchFrom with the next batch starting where the last one ended)
BatchFromNoGap(from, last_to) ==
    IF last_to = None THEN from ELSE last_to[1]

\* line 179: from_date if last_batch_to is None else last_batch_to + 1 ms
BatchFrom(from, last_to) ==
    IF last_to = None THEN from ELSE last_to[1] + Millisecond

\* (BatchTo without the clamp to to_date)
BatchToNoClamp(batch_from, p, to) == batch_from + BatchDelta(p)

\* line 180: min(batch_from + timedelta(days=...), to_date)
BatchTo(batch_from, p, to) == Min({batch_from + BatchDelta(p), to})

\* One pass of the while loop (lines 176-182).
GetBatchesIterate ==
    /\ pc = "loop"
    /\ last_batch_to[1] < to_date
    /\ LET batch_from == BatchFrom(from_date, last_batch_to)
           batch_to == BatchTo(batch_from, period, to_date)
       IN  /\ batches' = Append(batches, <<batch_from, batch_to>>)
           /\ last_batch_to' = <<batch_to>>
    /\ UNCHANGED <<from_date, to_date, period, pc>>
    /\ UNCHANGED featureVars
    /\ UNCHANGED cacheVars
    /\ UNCHANGED priceVars

\* The while test fails: return batches (line 184).
GetBatchesReturn ==
    /\ pc = "loop"
    /\ ~ (last_batch_to[1] < to_date)
    /\ pc' = "done"
    /\ UNCHANGED <<from_date, to_date, period, batches, last_batch_to>>
    /\ UNCHANGED featureVars
    /\ UNCHANGED cacheVars
    /\ UNCHANGED priceVars

\* ------------------------------------------------ MT5DataSource.get_prices
\* The arguments tried: every period of the table and one that is not in it.
UnknownPeriod == "2H"
PricePeriods == BatchPeriods \cup {UnknownPeriod}
symbol == "GBPUSD"
\* self._data_source_model.name
data_source_model_name == "MT5"

\* What the MetaTrader5 terminal can hold: the epoch seconds of a row, a price
\* (in points, 1 / 10000), and the (code, message) that last_error() gives.
RowTimes == {0, 5}
RowPrices == {1, 2}
LastErrors == {<<-1, "generic fail">>, <<-10004, "no IPC connection">>}

\* A row of copy_rates_range: one candle of the terminal.
RateRows ==
    {[time |-> t, open |-> v, high |-> v, low |-> v, close |-> v,
      tick_volume |-> 1, spread |-> 1] : t \in RowTimes, v \in RowPrices}

\* A row of copy_ticks_range: one tick of the terminal.
TickRows == {[time |-> t, bid |-> v, ask |-> v + 1] : t \in RowTimes, v \in RowPrices}

\* The arrays of at most n rows over a set of rows, in any order.
Arrays(rows, n) == UNION {[1..k -> rows] : k \in 0..n}

\* (period_mapping with a timeframe for thirty seconds)
period_mapping_30S ==
    [p \in BatchPeriods |->
        IF p \in {"1S", "5S", "10S", "15S"} THEN None ELSE <<p>>]

\* period_mapping (lines 90-95): None where the terminal has no timeframe, else
\* the timeframe (named here after its period)
period_mapping ==
    [p \in BatchPeriods |->
        IF p \in {"1S", "5S", "10S", "15S", "30S"} THEN None ELSE <<p>>]

\* (the exception carrying the range of the first batch)
DataNotAvailableExceptionOfBatch(error) ==
    [type |-> "DataNotAvailableException", datasource |-> data_source_model_name,
     symbol |-> symbol, period |-> period, from_date |-> batches[1][1],
     to_date |-> batches[1][2], error_code |-> error[1], error_message |-> error[2]]

\* The exception of lines 207-209 and 239-241.
DataNotAvailableException(error) ==
    [type |-> "DataNotAvailableException", datasource |-> data_source_model_name,
     symbol |-> symbol, period |-> period, from_date |-> from_date, to_date |-> to_date,
     error_code |-> error[1], error_message |-> error[2]]

\* An exception of Python itself, which carries none of these fields.
BuiltinError(type) ==
    [type |-> type, datasource |-> "", symbol |-> "", period |-> "", from_date |-> 0,
     to_date |-> 0, error_code |-> 0, error_message |-> ""]

\* outcome: a returned frame is its column names and its rows.
Pending ==
    [kind |-> "pending", columns |-> <<>>, prices_dataframe |-> <<>>,
     exception |-> BuiltinError("")]
Returned(columns, frame) ==
    [Pending EXCEPT !.kind = "returned", !.columns = columns, !.prices_dataframe = frame]
Raised(exception) == [Pending EXCEPT !.kind = "raised", !.exception = exception]

\* (drop_duplicates with keep='first')
drop_duplicates_first(rows) ==
    LET keep == {i \in DOMAIN rows : ~ \E j \in DOMAIN rows : j < i /\ rows[j].time = rows[i].time}
        F[i \in 0..Len(rows)] ==
            IF i = 0 THEN <<>>
            ELSE IF i \in keep THEN Append(F[i - 1], rows[i]) ELSE F[i - 1]
    IN  F[Len(rows)]

\* data.drop_duplicates(subset=['time'], keep='last') (line 216): a row goes
\* when a later row has its time; the rows left keep their order.
drop_duplicates(rows) ==
    LET keep == {i \in DOMAIN rows : ~ \E j \in DOMAIN rows : j > i /\ rows[j].time = rows[i].time}
        F[i \in 0..Len(rows)] ==
            IF i = 0 THEN <<>>
            ELSE IF i \in keep THEN Append(F[i - 1], rows[i]) ELSE F[i - 1]
    IN  F[Len(rows)]

\* DataSourceImplementation._prices_columns
prices_columns ==
    <<"time", "period", "bid_open", "bid_high", "bid_low", "bid_close",
      "ask_open", "ask_high", "ask_low", "ask_close", "volume">>

\* The frame of lines 107-118 from the merged rates (columns=_prices_columns).
RatesFrame(prices, p) ==
    [i \in DOMAIN prices |->
        [time |-> prices[i].time, period |-> p,
         bid_open |-> prices[i].open, bid_high |-> prices[i].high,
         bid_low |-> prices[i].low, bid_close |-> prices[i].close,
         ask_open |-> prices[i].open + prices[i].spread,
         ask_high |-> prices[i].high + prices[i].spread,
         ask_low |-> prices[i].low + prices[i].spread,
         ask_close |-> prices[i].close + prices[i].spread,
         volume |-> prices[i].tick_volume]]

\* The length in seconds of the offset that resample(period) reads in period.
PeriodSeconds(p) ==
    CASE p = "1S" -> 1
      [] p = "5S" -> 5
      [] p = "10S" -> 10
      [] p = "15S" -> 15
      [] p = "30S" -> 30

\* The start of the bucket that resample puts time t in.
Bucket(t, p) == t - (t % PeriodSeconds(p))

\* The bins of resample: every bucket from that of the earliest tick to that
\* of the latest, with or without ticks, in time order.
Bins(ticks, p) ==
    IF ticks = <<>> THEN <<>>
    ELSE LET lo == Min({Bucket(ticks[i].time, p) : i \in DOMAIN ticks})
             hi == Max({Bucket(ticks[i].time, p) : i \in DOMAIN ticks})
         IN  [k \in 1..((hi - lo) \div PeriodSeconds(p) + 1) |-> lo + (k - 1) * PeriodSeconds(p)]

\* (ohlc_calcs with high and low exchanged)
ohlc_calcs_swapped(values) ==
    LET S == {values[i] : i \in DOMAIN values}
    IN  [open |-> IF values = <<>> THEN NaN ELSE <<values[1]>>,
         high |-> IF values = <<>> THEN NaN ELSE <<Min(S)>>,
         low |-> IF values = <<>> THEN NaN ELSE <<Max(S)>>,
         close |-> IF values = <<>> THEN NaN ELSE <<values[Len(values)]>>,
         volume |-> Len(values)]

\* .agg(ohlc_calcs) over the values of one bin (line 131): first, max, min and
\* last are NaN for a bin without values, count is 0.  A value v is <<v>>.
ohlc_calcs(values) ==
    LET S == {values[i] : i \in DOMAIN values}
    IN  [open |-> IF values = <<>> THEN NaN ELSE <<values[1]>>,
         high |-> IF values = <<>> THEN NaN ELSE <<Max(S)>>,
         low |-> IF values = <<>> THEN NaN ELSE <<Min(S)>>,
         close |-> IF values = <<>> THEN NaN ELSE <<values[Len(values)]>>,
         volume |-> Len(values)]

\* resample groups on the time index sorted (a stable sort): the rows in time
\* order, rows of one time in the order of the frame.
SortedByTime(ticks) ==
    LET rank(i) == 1 + Cardinality({j \in DOMAIN ticks :
                        \/ ticks[j].time < ticks[i].time
                        \/ ticks[j].time = ticks[i].time /\ j < i})
    IN  [k \in DOMAIN ticks |-> ticks[CHOOSE i \in DOMAIN ticks : rank(i) = k]]

\* The ticks of bin b, in sorted order.
BinTicks(ticks, p, b) ==
    SelectSeq(SortedByTime(ticks), LAMBDA tick : Bucket(tick.time, p) = b)

\* Lines 132-142: bid and ask resampled, side by side; the columns renamed,
\* the bid count dropped, so that volume is the count of the ask column.
Resampled(ticks, p) ==
    [k \in DOMAIN Bins(ticks, p) |->
        LET in_bin == BinTicks(ticks, p, Bins(ticks, p)[k])
            bid == ohlc_calcs([i \in DOMAIN in_bin |-> in_bin[i].bid])
            ask == ohlc_calcs([i \in DOMAIN in_bin |-> in_bin[i].ask])
        IN  [time |-> Bins(ticks, p)[k], period |-> p,
             bid_open |-> bid.open, bid_high |-> bid.high,
             bid_low |-> bid.low, bid_close |-> bid.close,
             ask_open |-> ask.open, ask_high |-> ask.high,
             ask_low |-> ask.low, ask_close |-> ask.close,
             volume |-> ask.volume]]

\* (the columns of the resampled frame with bid_volume left in)
resampled_columns_undropped ==
    <<"time", "period", "bid_open", "bid_high", "bid_low", "bid_close", "bid_volume",
      "ask_open", "ask_high", "ask_low", "ask_close", "volume">>

\* The columns of the resampled frame: the twelve names of lines 140-141
\* less bid_volume (line 142).
resampled_columns ==
    SelectSeq(<<"time", "period", "bid_open", "bid_high", "bid_low", "bid_close", "bid_volume",
                "ask_open", "ask_high", "ask_low", "ask_close", "volume">>,
              LAMBDA column : column # "bid_volume")

\* prices_dataframe.dropna() (line 145): the rows with a NaN go.
dropna(frame) ==
    SelectSeq(frame, LAMBDA row :
        /\ row.bid_open # NaN /\ row.bid_high # NaN /\ row.bid_low # NaN /\ row.bid_close # NaN
        /\ row.ask_open # NaN /\ row.ask_high # NaN /\ row.ask_low # NaN /\ row.ask_close # NaN)

\* (a subscript that finds every key)
HasEveryKey(mapping, key) == TRUE

\* mapping[key] of a dict (line 98) raises KeyError unless key is in it.
HasKey(mapping, key) == key \in DOMAIN mapping

\* Lines 87-101: the timeframe of the period is looked up, a KeyError for a
\* period that is not a key; then __get_rates or __get_ticks calls
\* __get_batches (lines 174-175).
GetPricesLookup ==
    /\ pc = "get_prices"
    /\ IF HasKey(period_mapping, period)
       THEN /\ pc' = "loop"
            /\ batches' = <<>>
            /\ last_batch_to' = <<from_date>>
            /\ UNCHANGED outcome
       ELSE /\ pc' = "raised"
            /\ outcome' = Raised(BuiltinError("KeyError"))
            /\ UNCHANGED <<batches, last_batch_to>>
    /\ UNCHANGED <<from_date, to_date, period, requests, batch_data>>
    /\ UNCHANGED featureVars
    /\ UNCHANGED cacheVars

\* (the batches taken from the last one backwards)
NextBatchReversed(batch_list, made) == batch_list[Len(batch_list) - made]

\* for batch in batches (lines 202, 234): the batch of the pass that follows
\* `made` passes.
NextBatch(batch_list, made) == batch_list[made + 1]

\* One pass of the for loop of __get_rates (lines 202-212) or __get_ticks
\* (lines 234-244): the next batch is asked of the terminal, which fails
\* (None) or gives an array of rows; a failure raises, an array is appended.
RequestBatch ==
    /\ pc = "done"
    /\ Len(requests) < Len(batches)
    /\ LET batch == NextBatch(batches, Len(requests))
           timeframe == period_mapping[period]
           api == IF timeframe # None THEN "copy_rates_range" ELSE "copy_ticks_range"
           held == IF batch_data = None THEN 0 ELSE Len(batch_data[1])
           arrays == IF timeframe # None THEN Arrays(RateRows, MaxRows - held)
                     ELSE Arrays(TickRows, MaxRows - held)
       IN  \/ \E error \in LastErrors :
                /\ requests' = Append(requests, [api |-> api, batch |-> batch, ok |-> FALSE, rows |-> 0])
                /\ outcome' = Raised(DataNotAvailableException(error))
                /\ pc' = "raised"
                /\ UNCHANGED batch_data
           \/ \E prices \in arrays :
                /\ requests' = Append(requests, [api |-> api, batch |-> batch, ok |-> TRUE,
                                                 rows |-> Len(prices)])
                /\ batch_data' = IF batch_data = None THEN <<prices>> ELSE <<batch_data[1] \o prices>>
                /\ UNCHANGED <<outcome, pc>>
    /\ UNCHANGED <<from_date, to_date, period, batches, last_batch_to>>
    /\ UNCHANGED featureVars
    /\ UNCHANGED cacheVars

\* The for loop is over.  __get_rates drops the duplicates of data (line 216),
\* an AttributeError when it is still None; __get_ticks returns it as it
\* is (line 246).
FetchReturn ==
    /\ pc = "done"
    /\ Len(requests) = Len(batches)
    /\ IF period_mapping[period] # None
       THEN IF batch_data = None
            THEN /\ outcome' = Raised(BuiltinError("AttributeError"))
                 /\ pc' = "raised"
                 /\ UNCHANGED batch_data
            ELSE /\ batch_data' = <<drop_duplicates(batch_data[1])>>
                 /\ pc' = "fetched"
                 /\ UNCHANGED outcome
       ELSE /\ pc' = "fetched"
            /\ UNCHANGED <<batch_data, outcome>>
    /\ UNCHANGED <<from_date, to_date, period, batches, last_batch_to, requests>>
    /\ UNCHANGED featureVars
    /\ UNCHANGED cacheVars

\* The rest of get_prices (lines 104-158): the rates made a price frame, or
\* the ticks resampled into one; len(ticks) is a TypeError when __get_ticks
\* returned None.  (The RecursionError that lines 147-148 log is not raised
\* by frames of this size.)
GetPricesReturn ==
    /\ pc = "fetched"
    /\ IF period_mapping[period] # None
       THEN /\ outcome' = Returned(prices_columns, RatesFrame(batch_data[1], period))
            /\ pc' = "returned"
       ELSE IF batch_data = None
            THEN /\ outcome' = Raised(BuiltinError("TypeError"))
                 /\ pc' = "raised"
            ELSE /\ outcome' = Returned(resampled_columns,
                                         dropna(Resampled(batch_data[1], period)))
                 /\ pc' = "returned"
    /\ UNCHANGED <<from_date, to_date, period, batches, last_batch_to, requests, batch_data>>
    /\ UNCHANGED featureVars
    /\ UNCHANGED cacheVars

\* --------------------------------------------------- _Cache (django_cache)
\* A text is the sequence of its characters.  A value passed to the wrapped
\* function is its type and the text that f'{x}' gives for it.
IntValue(text) == [type |-> "int", text |-> text]
StrValue(text) == [type |-> "str", text |-> text]

\* A text one character longer than the key may be, ending in `ending`.
LongText(ending) == [i \in 1..(KeyLimit + 1) |-> IF i <= KeyLimit THEN "x" ELSE ending]

\* self.__func.__name__ of the decorated function
func_name == <<"g", "e", "t", "_", "d", "a", "t", "a">>

\* The positional and the keyword arguments tried.
ArgLists ==
    {<<>>,
     <<StrValue(<<"a", "b">>)>>,
     <<StrValue(<<"a", " ", "b">>)>>,
     <<StrValue(<<"a", ",", "b">>)>>,
     <<StrValue(<<"a">>), StrValue(<<"b">>)>>,
     <<StrValue(<<"1">>)>>,
     <<IntValue(<<"1">>)>>,
     <<StrValue(LongText("a"))>>,
     <<StrValue(LongText("b"))>>}
KwargLists == {<<>>, <<[name |-> <<"n">>, value |-> IntValue(<<"1">>)]>>}

\* f'{x}'
Format(x) == x.text

\* f'{x}={kwargs[x]}'
FormatKwarg(kwarg) == kwarg.name \o <<"=">> \o Format(kwarg.value)

\* ','.join(texts)
RECURSIVE Join(_)
Join(texts) ==
    IF texts = <<>> THEN <<>>
    ELSE IF Len(texts) = 1 THEN texts[1]
    ELSE texts[1] \o <<",">> \o Join(Tail(texts))

\* text.replace(" ", "").replace("\n", "")
RemoveSpaces(text) == SelectSeq(text, LAMBDA char : char \notin {" ", "\n"})

\* cache_key[0:200] if len(cache_key) > 200 else cache_key
Truncate(text) == IF Len(text) > KeyLimit THEN SubSeq(text, 1, KeyLimit) ELSE text

\* Lines 57-61: the function name, the arguments and the keyword arguments,
\* joined, without spaces and newlines, cut to the limit.
cache_key(args, kwargs) ==
    Truncate(RemoveSpaces(
        func_name \o <<"_">>
        \o Join([i \in DOMAIN args |-> Format(args[i])]) \o <<"_">>
        \o Join([i \in DOMAIN kwargs |-> FormatKwarg(kwargs[i])])))

\* self.__func(self, *args, **kwargs): the frame the function makes of these
\* arguments, told apart from the frame of any other arguments.
func(args, kwargs) == [args |-> args, kwargs |-> kwargs]

\* ret.to_json(orient='table') and pd.read_json(json_txt, orient='table')
to_json(ret) == <<"table", ret>>
read_json(json_txt) == json_txt[2]

\* cache.get(cache_key, None)
cache_get(key) ==
    IF \E entry \in cache : entry.key = key
    THEN (CHOOSE entry \in cache : entry.key = key).json_txt
    ELSE None

\* cache.set(cache_key, json_txt)
cache_set(key, json_txt) ==
    {entry \in cache : entry.key # key} \cup {[key |-> key, json_txt |-> json_txt]}

NoAnswer ==
    [args |-> <<>>, kwargs |-> <<>>, cache_key |-> <<>>, ret |-> func(<<>>, <<>>),
     from_cache |-> FALSE, called |-> FALSE]

\* _Cache.__call__(*args, **kwargs), lines 48-84.
CacheCall(args, kwargs) ==
    /\ calls < MaxCalls
    /\ calls' = calls + 1
    /\ LET key == cache_key(args, kwargs)
           json_txt == cache_get(key)
       IN  IF cache_backend_exists
           THEN IF json_txt # None
                THEN /\ answer' = [args |-> args, kwargs |-> kwargs, cache_key |-> key,
                                   ret |-> read_json(json_txt), from_cache |-> TRUE,
                                   called |-> TRUE]
                     /\ UNCHANGED cache
                ELSE /\ answer' = [args |-> args, kwargs |-> kwargs, cache_key |-> key,
                                   ret |-> func(args, kwargs), from_cache |-> FALSE,
                                   called |-> TRUE]
                     /\ cache' = cache_set(key, to_json(func(args, kwargs)))
           ELSE /\ answer' = [args |-> args, kwargs |-> kwargs, cache_key |-> key,
                              ret |-> func(args, kwargs), from_cache |-> FALSE,
                              called |-> TRUE]
                /\ UNCHANGED cache
    /\ UNCHANGED cache_backend_exists
    /\ UNCHANGED <<featureVars, batchVars, priceVars>>

\* An entry of the Django cache reaches its timeout (cache.set is given none,
\* so the default of the backend applies) and is gone.
CacheExpire(key) ==
    /\ \E entry \in cache : entry.key = key
    /\ cache' = {entry \in cache : entry.key # key}
    /\ UNCHANGED <<cache_backend_exists, calls, answer>>
    /\ UNCHANGED <<featureVars, batchVars, priceVars>>

\* ------------------------------------------------------- specifications
\* No candle stored yet; the result table is empty or holds a row of another
\* feature execution; the execution's configuration is any within the bounds.
FeatureInit ==
    /\ candles = {}
    /\ results \in {<<>>,
                    <<[time |-> TimeStep * MaxTime, feature_execution_id |-> "fe2",
                       result |-> NaN]>>}
    /\ required \in SUBSET Symbols
    /\ calculation_period \in CalculationPeriods
    /\ unique_constraint \in BOOLEAN
    /\ last = NoCall

FeatureIdle ==
    /\ candles = {}
    /\ results = <<>>
    /\ required = {}
    /\ calculation_period = [kind |-> "count", n |-> WindowCount]
    /\ unique_constraint = FALSE
    /\ last = NoCall

\* __get_batches entered: batches = [], last_batch_to = from_date (lines 174-175)
BatchInit ==
    /\ from_date \in 0..MaxFromDate
    /\ to_date \in 0..MaxToDate
    /\ period \in BatchPeriods
    /\ batches = <<>>
    /\ last_batch_to = <<from_date>>
    /\ pc = "loop"

BatchIdle ==
    /\ from_date = 0
    /\ to_date = 0
    /\ period = "1M"
    /\ batches = <<>>
    /\ last_batch_to = <<0>>
    /\ pc = "idle"

\* get_prices entered, with a range of up to MaxSpan batch widths (a width of
\* an hour where the period has none).
PricesInit ==
    /\ period \in PricePeriods
    /\ from_date = MaxFromDate
    /\ to_date \in {from_date + k * (IF period \in BatchPeriods THEN BatchDelta(period) ELSE Hour) :
                        k \in -1..MaxSpan}
    /\ batches = <<>>
    /\ last_batch_to = <<from_date>>
    /\ pc = "get_prices"
    /\ requests = <<>>
    /\ batch_data = None
    /\ outcome = Pending

PricesIdle ==
    /\ requests = <<>>
    /\ batch_data = None
    /\ outcome = Pending

\* The decorator made, nothing cached yet; the cache is configured or not.
CacheInit ==
    /\ cache = {}
    /\ cache_backend_exists \in BOOLEAN
    /\ calls = 0
    /\ answer = NoAnswer

CacheIdle ==
    /\ cache = {}
    /\ cache_backend_exists = TRUE
    /\ calls = 0
    /\ answer = NoAnswer

\* The feature cycle over the candle and result tables.
Init == FeatureInit /\ BatchIdle /\ PricesIdle /\ CacheIdle

Next ==
    \/ \E dss \in Symbols, candle_period \in Periods, time \in Times :
            AddCandle(dss, candle_period, time)
    \/ GetDataFromDate
    \/ Execute

Spec == Init /\ [][Next]_vars

\* One call of __get_batches, for every argument within the bounds.
InitBatches == FeatureIdle /\ BatchInit /\ PricesIdle /\ CacheIdle

NextBatches ==
    \/ GetBatchesIterate
    \/ GetBatchesReturn

SpecBatches == InitBatches /\ [][NextBatches]_vars

\* The same call in a thread that keeps running: a loop pass or the return
\* that can be taken is taken.
SpecBatchesFair == SpecBatches /\ WF_vars(NextBatches)

\* One call of get_prices, for every argument and every answer of the
\* terminal within the bounds.
InitPrices == FeatureIdle /\ PricesInit /\ CacheIdle

NextPrices ==
    \/ GetPricesLookup
    \/ GetBatchesIterate
    \/ GetBatchesReturn
    \/ RequestBatch
    \/ FetchReturn
    \/ GetPricesReturn

SpecPrices == InitPrices /\ [][NextPrices]_vars

\* Calls of one decorated function, with every argument list within the
\* bounds, while cache entries expire.
InitCache == FeatureIdle /\ BatchIdle /\ PricesIdle /\ CacheInit

NextCache ==
    \/ \E args \in ArgLists, kwargs \in KwargLists : CacheCall(args, kwargs)
    \/ \E key \in {entry.key : entry \in cache} : CacheExpire(key)

SpecCache == InitCache /\ [][NextCache]_vars

\* ------------------------------------------------------------------ claims
\* Joint availability as the design defines it: the times at which every
\* required datasource symbol has a candle (of whatever period).
JointAvailability ==
    {t \in {c.time : c \in candles} :
        \A s \in required : \E c \in candles : c.datasource_symbol = s /\ c.time = t}

\* The jointly available times later than the latest result of the execution.
LaterJoint ==
    {t \in JointAvailability : t > last_calc_time(FeatureExecutionId)}

\* Nothing new to compute, in the sense of the design.
NoWorkAvailable ==
    IF last_calc_exists(FeatureExecutionId) THEN LaterJoint = {} ELSE JointAvailability = {}

\* The result rows of the execution under study, as a set.
RowSet(table) ==
    {table[i] : i \in {j \in DOMAIN table : table[j].feature_execution_id = FeatureExecutionId}}

\* C1: the result table holds at most one row per (feature_execution, time),
\* and a cycle that found work ends without error with every row it computed
\* stored (rows of times that already had a result are overwritten, not added).
C1_OneResultPerKey ==
    /\ ~ HasDuplicateKey(results)
    /\ (last.op = "execute" /\ last.from_date # None) =>
            /\ last.error = "none"
            /\ \A k \in DOMAIN last.rows : last.rows[k] \in RowSet(results)

\* C2: the times get_data_from_date treats as available are exactly the times
\* at which every required symbol has a candle.
C2_AvailabilityIsIntersection ==
    (last.op = "get_data_from_date" /\ required # {}) => times = JointAvailability

\* C3: with a prior result, get_data_from_date returns the earliest jointly
\* available time later than the latest result, minus calculation_period.
C3_FromDateWithPriorResult ==
    (/\ last.op = "get_data_from_date"
     /\ required # {}
     /\ last_calc_exists(FeatureExecutionId)
     /\ LaterJoint # {})
    => last.from_date = <<Min(LaterJoint) - to_timedelta(calculation_period)>>

\* C4: with no prior result, get_data_from_date returns the earliest jointly
\* available time itself.
C4_FromDateWithoutPriorResult ==
    (/\ last.op = "get_data_from_date"
     /\ required # {}
     /\ ~ last_calc_exists(FeatureExecutionId)
     /\ JointAvailability # {})
    => last.from_date = <<Min(JointAvailability)>>

\* C5: when no jointly available time is left, get_data_from_date returns None
\* without raising and execute (on its one symbol) gets no frame, ends without
\* error and writes no row.
C5_NoWorkIsNotAnError ==
    [][ (required # {} /\ NoWorkAvailable) =>
            /\ last'.op = "get_data_from_date" =>
                    (last'.from_date = None /\ last'.error = "none")
            /\ (last'.op = "execute" /\ Cardinality(required) = 1) =>
                    /\ last'.from_date = None
                    /\ last'.data = <<>>
                    /\ last'.error = "none"
                    /\ results' = results ]_vars

\* The rows of the observations with a complete window of n observations.
CompleteWindowRows(df, fe, n) ==
    [k \in 1..(IF Len(df) >= n THEN Len(df) - n + 1 ELSE 0) |->
        [time |-> df[k + n - 1].time, feature_execution_id |-> fe,
         result |-> Mean(df, k, k + n - 1)]]

\* C6: for a window of N observations over a fetched frame of L candles,
\* execute emits rows exactly for observations N..L, none for the first N - 1.
C6_OnlyCompleteWindows ==
    (/\ last.op = "execute"
     /\ last.from_date # None
     /\ calculation_period.kind = "count")
    => last.rows = CompleteWindowRows(last.data, FeatureExecutionId, calculation_period.n)

\* C7: a cycle whose window overlaps the times already computed (no candle
\* having arrived late inside them) leaves the rows one run over the union of
\* the windows gives: same keys, same values.
C7_OverlapIsIdempotent ==
    [][ (/\ last'.op = "execute"
         /\ last'.from_date # None
         /\ last_calc_exists(FeatureExecutionId)
         /\ last'.from_date[1] <= last_calc_time(FeatureExecutionId)
         /\ LET feds == CHOOSE s \in required : TRUE
                union_from == Min({results[i].time : i \in ResultsOf(FeatureExecutionId)}
                                  \cup {last'.from_date[1]})
            IN  \A c \in CandlesFrom(feds, union_from) :
                    c.time <= last_calc_time(FeatureExecutionId) =>
                        \E i \in ResultsOf(FeatureExecutionId) : results[i].time = c.time)
        => LET feds == CHOOSE s \in required : TRUE
               union_from == Min({results[i].time : i \in ResultsOf(FeatureExecutionId)}
                                 \cup {last'.from_date[1]})
           IN  \E df \in SortedFrames(CandlesFrom(feds, union_from)) :
                   RowSet(results') =
                       {ResultRows(df, FeatureExecutionId, calculation_period)[k] :
                            k \in 1..Len(df)} ]_vars

\* C8: for from < to the first batch starts exactly at from_date.
C8_FirstBatchStartsAtFrom ==
    (from_date < to_date /\ Len(batches) >= 1) => batches[1][1] = from_date

\* C9: no batch ends after to_date, and for from < to the last batch of the
\* returned list ends exactly at to_date.
C9_LastBatchEndsAtTo ==
    /\ \A n \in DOMAIN batches : batches[n][2] <= to_date
    /\ (pc = "done" /\ from_date < to_date) =>
            (Len(batches) >= 1 /\ batches[Len(batches)][2] = to_date)

\* several batches returned, the last one cut short by to_date
C9_Witness ==
    /\ pc = "done"
    /\ from_date < to_date
    /\ Len(batches) >= 2
    /\ batches[Len(batches)][1] + BatchDelta(period) > to_date
    /\ batches[Len(batches)][2] = to_date

\* C10: adjacent batches are in increasing order and do not overlap: batch
\* n + 1 starts exactly one millisecond after batch n ends.
C10_AdjacentBatches ==
    \A n \in 1..(Len(batches) - 1) :
        /\ batches[n + 1][1] = batches[n][2] + Millisecond
        /\ batches[n][2] < batches[n + 1][1]
        /\ batches[n][1] < batches[n + 1][1]
        /\ batches[n][2] < batches[n + 1][2]

\* a returned list of three or more batches
C10_Witness ==
    /\ pc = "done"
    /\ Len(batches) >= 3

\* The call ended with the DataNotAvailableException of the datasource.
RaisedDataNotAvailable ==
    outcome.kind = "raised" /\ outcome.exception.type = "DataNotAvailableException"

\* Some upstream request of the call failed (returned None).
SomeRequestFailed == \E i \in DOMAIN requests : ~ requests[i].ok

\* The call is over.
CallOver == pc \in {"returned", "raised"}

\* C11: get_prices raises DataNotAvailableException exactly when an upstream
\* request failed; the exception carries the datasource name, the symbol, the
\* period, the requested range and the upstream error code and message; when
\* every batch was answered with zero rows the call returns an empty frame.
C11_DataNotAvailableOnFailure ==
    /\ RaisedDataNotAvailable <=> SomeRequestFailed
    /\ RaisedDataNotAvailable =>
            /\ outcome.exception.datasource = data_source_model_name
            /\ outcome.exception.symbol = symbol
            /\ outcome.exception.period = period
            /\ outcome.exception.from_date = from_date
            /\ outcome.exception.to_date = to_date
            /\ <<outcome.exception.error_code, outcome.exception.error_message>> \in LastErrors
    /\ (/\ CallOver
        /\ Len(batches) >= 1
        /\ Len(requests) = Len(batches)
        /\ ~ SomeRequestFailed
        /\ batch_data = <<(<<>>)>>)
       => (outcome.kind = "returned" /\ outcome.prices_dataframe = <<>>)

\* the second batch failed after the first had given rows
C11_Witness ==
    /\ RaisedDataNotAvailable
    /\ Len(requests) = 2
    /\ requests[1].ok
    /\ batch_data # None
    /\ Len(batch_data[1]) >= 1

\* C12: the upstream requests of one call are made one per batch, in batch
\* order and never twice; once a request has failed no further request is
\* made, the call has raised and no frame is returned.
C12_OneRequestPerBatchNoRetry ==
    [][ /\ Len(requests') <= Len(batches')
        /\ \A i \in DOMAIN requests' : requests'[i].batch = batches'[i]
        /\ \/ requests' = requests
           \/ \E request \in {requests'[Len(requests')]} : requests' = Append(requests, request)
        /\ SomeRequestFailed => (requests' = requests /\ outcome' = outcome)
        /\ (\E i \in DOMAIN requests' : ~ requests'[i].ok) =>
                (outcome'.kind = "raised" /\ outcome'.prices_dataframe = <<>>)
        /\ outcome'.kind = "returned" =>
                (Len(requests') = Len(batches') /\ \A i \in DOMAIN requests' : requests'[i].ok) ]_vars

\* the first of two batches failed: the second one was never requested
C12_Witness ==
    /\ RaisedDataNotAvailable
    /\ Len(batches) = 2
    /\ Len(requests) = 1

\* The rows the terminal gave during the call, all batches together.
RowsReceived ==
    LET F[i \in 0..Len(requests)] == IF i = 0 THEN 0 ELSE F[i - 1] + requests[i].rows
    IN  F[Len(requests)]

\* The call went the native-candle way (only read once the lookup succeeded).
RatesRoute == period \in BatchPeriods /\ period_mapping[period] # None

\* The call went the tick way.
TicksRoute == period \in BatchPeriods /\ period_mapping[period] = None

\* C13: __get_rates appends the rows of each batch after those of the batches
\* before; the merged series it returns has one row per distinct timestamp of
\* the rows received, none lost, and the row of a timestamp is its last
\* occurrence in batch order.
C13_MergeKeepsLastPerTimestamp ==
    [][ /\ (pc = "done" /\ requests' # requests /\ requests'[Len(requests')].ok) =>
                LET old == IF batch_data = None THEN <<>> ELSE batch_data[1]
                IN  /\ batch_data' # None
                    /\ Len(batch_data'[1]) = Len(old) + requests'[Len(requests')].rows
                    /\ SubSeq(batch_data'[1], 1, Len(old)) = old
        /\ (pc = "done" /\ pc' = "fetched" /\ RatesRoute) =>
                LET raw == batch_data[1]
                    merged == batch_data'[1]
                IN  /\ \A i \in DOMAIN raw : \E j \in DOMAIN merged : merged[j].time = raw[i].time
                    /\ \A j, k \in DOMAIN merged : j # k => merged[j].time # merged[k].time
                    /\ \A j \in DOMAIN merged :
                            /\ \E i \in DOMAIN raw : raw[i].time = merged[j].time
                            /\ merged[j] = raw[Max({i \in DOMAIN raw : raw[i].time = merged[j].time})] ]_vars

\* two batches gave rows, a timestamp came more than once, two timestamps are left
C13_Witness ==
    /\ pc = "fetched"
    /\ RatesRoute
    /\ Len(requests) = 2
    /\ requests[1].rows >= 1
    /\ requests[2].rows >= 1
    /\ Len(batch_data[1]) < RowsReceived
    /\ Len(batch_data[1]) >= 2

\* The ticks received that fall in the bucket starting at time b.
TicksOfBucket(b) ==
    {i \in DOMAIN batch_data[1] :
        b <= batch_data[1][i].time /\ batch_data[1][i].time < b + PeriodSeconds(period)}

\* The first and the last tick of a set of ticks: by time, and among ticks of
\* one time by their place in the stream.
Earlier(i, j) ==
    \/ batch_data[1][i].time < batch_data[1][j].time
    \/ batch_data[1][i].time = batch_data[1][j].time /\ i <= j
FirstTick(S) == CHOOSE i \in S : \A j \in S : Earlier(i, j)
LastTick(S) == CHOOSE i \in S : \A j \in S : Earlier(j, i)

\* C14: on the tick route the frame returned has exactly one candle for every
\* period bucket holding a tick and none for a bucket without; on the bid and
\* on the ask side its open is the first tick price of the bucket, high the
\* largest, low the smallest, close the last, and volume is the number of
\* ticks of the bucket.
C14_OneCandlePerTickBucket ==
    (pc = "returned" /\ TicksRoute) =>
        LET ticks == batch_data[1]
            frame == outcome.prices_dataframe
        IN  /\ \A i \in DOMAIN ticks :
                    Cardinality({k \in DOMAIN frame : i \in TicksOfBucket(frame[k].time)}) = 1
            /\ \A k \in DOMAIN frame :
                    LET in_bucket == TicksOfBucket(frame[k].time)
                    IN  /\ frame[k].time % PeriodSeconds(period) = 0
                        /\ frame[k].period = period
                        /\ in_bucket # {}
                        /\ frame[k].bid_open = <<ticks[FirstTick(in_bucket)].bid>>
                        /\ frame[k].bid_close = <<ticks[LastTick(in_bucket)].bid>>
                        /\ frame[k].bid_high = <<Max({ticks[i].bid : i \in in_bucket})>>
                        /\ frame[k].bid_low = <<Min({ticks[i].bid : i \in in_bucket})>>
                        /\ frame[k].ask_open = <<ticks[FirstTick(in_bucket)].ask>>
                        /\ frame[k].ask_close = <<ticks[LastTick(in_bucket)].ask>>
                        /\ frame[k].ask_high = <<Max({ticks[i].ask : i \in in_bucket})>>
                        /\ frame[k].ask_low = <<Min({ticks[i].ask : i \in in_bucket})>>
                        /\ frame[k].volume = Cardinality(in_bucket)

\* two candles with buckets without ticks between them, one of them made of
\* two ticks of different prices
C14_Witness ==
    /\ pc = "returned"
    /\ TicksRoute
    /\ Len(outcome.prices_dataframe) = 2
    /\ outcome.prices_dataframe[2].time - outcome.prices_dataframe[1].time > PeriodSeconds(period)
    /\ \E k \in DOMAIN outcome.prices_dataframe :
            /\ outcome.prices_dataframe[k].volume = 2
            /\ outcome.prices_dataframe[k].bid_high # outcome.prices_dataframe[k].bid_low

\* C15: every upstream request of a call is copy_rates_range when the period
\* is one minute or coarser and copy_ticks_range when it is 1S, 5S, 10S, 15S
\* or 30S; no call mixes the two and a sub-minute period never reaches
\* copy_rates_range.
C15_RouteByPeriodAlone ==
    /\ \A i \in DOMAIN requests :
            requests[i].api =
                IF period \in {"1S", "5S", "10S", "15S", "30S"}
                THEN "copy_ticks_range" ELSE "copy_rates_range"
    /\ \A i, j \in DOMAIN requests : requests[i].api = requests[j].api

\* a call for thirty-second candles that asked for ticks twice and returned
C15_Witness ==
    /\ pc = "returned"
    /\ period = "30S"
    /\ Len(requests) = 2
    /\ requests[1].api = "copy_ticks_range"
    /\ requests[2].api = "copy_ticks_range"

\* C16: on the tick route, when every batch was answered and no tick came,
\* get_prices returns a frame without rows that has the standard price
\* columns, and raises nothing.
C16_EmptyTickStreamGivesEmptyFrame ==
    (/\ CallOver
     /\ TicksRoute
     /\ Len(batches) >= 1
     /\ Len(requests) = Len(batches)
     /\ ~ SomeRequestFailed
     /\ RowsReceived = 0)
    => /\ outcome.kind = "returned"
       /\ outcome.prices_dataframe = <<>>
       /\ outcome.columns = prices_columns

\* two tick batches answered without a tick, and the call returned
C16_Witness ==
    /\ pc = "returned"
    /\ TicksRoute
    /\ Len(requests) = 2
    /\ RowsReceived = 0

\* C17: for an execution without required symbols, get_data_from_date and
\* execute both end with an error; neither reports "no work" or passes quietly.
C17_EmptyRequiredSetIsAnError ==
    (required = {} /\ last.op \in {"get_data_from_date", "execute"}) => last.error # "none"

\* C18: a call with a period that is not in the table of periods ends with an
\* error, without any upstream request and without returning a frame.
C18_UnknownPeriodFails ==
    (period \notin BatchPeriods) =>
        /\ requests = <<>>
        /\ outcome.kind # "returned"
        /\ pc \in {"get_prices", "raised"}
        /\ pc = "raised" => outcome.kind = "raised"

\* the call with the unknown period has ended with a KeyError
C18_Witness ==
    /\ period = UnknownPeriod
    /\ pc = "raised"
    /\ outcome.exception.type = "KeyError"

\* C19: for an execution with one required symbol, the call that follows a
\* cycle that found work and ended without error, no candle having been stored
\* in between, finds no work: get_data_from_date returns None.
C19_Quiescence ==
    (/\ Cardinality(required) = 1
     /\ last.after_work
     /\ last.op \in {"get_data_from_date", "execute"})
    => last.from_date = None

\* get_data_from_date called straight after a cycle that wrote results
C19_Witness ==
    /\ Cardinality(required) = 1
    /\ last.after_work
    /\ last.op = "get_data_from_date"
    /\ last.from_date = None
    /\ last_calc_exists(FeatureExecutionId)

\* C20: a call with from_date >= to_date, for which __get_batches gives no
\* batch, returns a frame without rows and raises nothing, on both routes.
C20_DegenerateRangeReturnsEmpty ==
    (CallOver /\ period \in BatchPeriods /\ from_date >= to_date) =>
        /\ batches = <<>>
        /\ outcome.kind = "returned"
        /\ outcome.prices_dataframe = <<>>

\* C21: every pass of the while loop of __get_batches moves last_batch_to
\* strictly forward and never past to_date, and the loop ends: the list of
\* batches is returned.
C21_BatchLoopTerminates ==
    /\ [][ (pc = "loop" /\ batches' # batches) =>
                /\ last_batch_to'[1] > last_batch_to[1]
                /\ last_batch_to'[1] <= to_date ]_vars
    /\ <>(pc = "done")

\* the loop has ended after a last pass that began less than a millisecond
\* before to_date (its batch starts after it ends)
C21_Witness ==
    /\ pc = "done"
    /\ Len(batches) >= 2
    /\ last_batch_to = <<to_date>>
    /\ batches[Len(batches)][1] > batches[Len(batches)][2]

\* C22: a call answered from the cache gets the frame that the wrapped
\* function makes for the arguments and keyword arguments of that very call.
C22_CacheAnswersSameArguments ==
    (answer.called /\ answer.from_cache) => answer.ret = func(answer.args, answer.kwargs)

====
